---------------------------- MODULE Spec2Model ----------------------------
(***************************************************************************)
(* Model of jaxmp/extras/solve_ik.py: the two IK entry points solve_ik and *)
(* solve_ik_with_coll.  Each call assembles a factor list, declares the    *)
(* variable set, hands both to the least-squares engine with initial       *)
(* values and a termination configuration, lets the engine iterate, and    *)
(* extracts the result from the solution.                                  *)
(*                                                                         *)
(* Abstractions: a joint configuration and an SE(3) pose are small         *)
(* integers (Identity is 0); weights are integers in units of 0.001,       *)
(* tolerances in units of 1e-6, dt and margins in units of 0.01.           *)
(***************************************************************************)
EXTENDS Integers, Sequences, FiniteSets, TLC

VARIABLES
    args,          \* per call: the caller's arguments (never modified)
    pc,            \* per call: position in the entry point
    factors,       \* per call: the local list `factors`
    joint_vars,    \* per call: the local list `joint_vars` (declared variables)
    initial_vals,  \* per call: initial_vals given to graph.solve
    termination,   \* per call: the TerminationConfig given to graph.solve
    solution,      \* per call: the engine's current iterate
    iter,          \* per call: engine iterations performed
    readVars,      \* per call: variables read from the solution on extraction
    result,        \* per call: what the call returned (or how it failed)
    alone,         \* per call: the result of the same call run alone
    kin,           \* the kinematic model (shared, externally supplied)
    robot_coll,    \* the robot's collision geometry (shared, externally supplied)
    lookupMode     \* how the engine answers a lookup of an undeclared variable

vars == <<args, pc, factors, joint_vars, initial_vals, termination, solution,
          iter, readVars, result, alone, kin, robot_coll, lookupMode>>

---------------------------------------------------------------------------
(* Bounds of the model *)

QMax == 1            \* configurations / poses are 0..QMax
MaxVarIdx == 1       \* variable ids are 0..MaxVarIdx
MaxIterArg == 2      \* the caller's max_iterations ranges over 0..MaxIterArg
MaxObstacles == 2    \* world obstacle lists have at most this many entries

(* Program constants *)

NoneIdx == -1                 \* None (pose_var_idx = None, an absent field)
Identity == 0                 \* jaxlie.SE3.identity()
GradientTolerance == 10       \* 1e-5
ParameterTolerance == 10      \* 1e-5
CollMaxIterations == 50
CollVelDt == 10               \* 0.1
SelfCollMargin == 5           \* 0.05
WorldCollMargin == 10         \* 0.1
DefaultRestWeight == 1        \* 0.001
DefaultLimitWeight == 100000  \* 100.0
DefaultJointVelWeight == 0    \* 0.0
DefaultDt == 1                \* 0.01
DefaultManipWeight == 1       \* 0.001
DefaultPosWeight == 5000      \* 5.0
DefaultRotWeight == 1000      \* 1.0
DefaultSelfCollWeight == 5000    \* 5.0
DefaultWorldCollWeight == 10000  \* 10.0
NumActuatedJoints == 2
NumJoints == 2

Calls == {1, 2}
Q == 0 .. QMax
NA == NoneIdx                 \* a field the factor kind or result does not have
Unreachable == QMax + 1       \* a target pose no configuration attains
IkWeight == <<DefaultPosWeight, DefaultPosWeight, DefaultPosWeight,
              DefaultRotWeight, DefaultRotWeight, DefaultRotWeight>>

KinModel == [num_actuated_joints |-> NumActuatedJoints, num_joints |-> NumJoints]
RobotCollGeom == [links |-> NumJoints]

---------------------------------------------------------------------------
(* Variables of the factor graph: a variable class and an id *)

JointVar(i) == [cls |-> "JointVar", id |-> i]
ConstrainedSE3Var(i) == [cls |-> "ConstrainedSE3Var", id |-> i]

\* [w] * n
Repeat(w, n) == [i \in 1 .. n |-> w]

---------------------------------------------------------------------------
(* RobotFactors: the factor constructors; a factor records its kind and    *)
(* the arguments it was built from.                                        *)

Factor(kind, idx, weights) ==
    [kind |-> kind, var_idx |-> idx, weights |-> weights, prev_cfg |-> NA,
     dt |-> NA, target |-> NA, target_idx |-> <<>>, has_base |-> FALSE,
     base_idx |-> NA, geom |-> NA, margin |-> NA]

limit_cost_factor(idx, weights) == Factor("limit", idx, weights)

limit_vel_cost_factor(idx, dt, weights, prev_cfg) ==
    [Factor("limit_vel", idx, weights) EXCEPT !.dt = dt, !.prev_cfg = prev_cfg]

rest_cost_factor(idx, weights) == Factor("rest", idx, weights)

ik_cost_factor(idx, target_pose, target_joint_indices, weights, has_base, base_idx) ==
    [Factor("ik", idx, weights) EXCEPT !.target = target_pose,
        !.target_idx = target_joint_indices, !.has_base = has_base,
        !.base_idx = base_idx]

manipulability_cost_factor(idx, target_joint_indices, weight) ==
    [Factor("manipulability", idx, <<weight>>) EXCEPT
        !.target_idx = target_joint_indices]

self_coll_factor(idx, margin, weight) ==
    [Factor("self_coll", idx, <<weight>>) EXCEPT !.margin = margin]

world_coll_factor(idx, coll, margin, weight) ==
    [Factor("world_coll", idx, <<weight>>) EXCEPT !.geom = coll, !.margin = margin]

\* RobotFactors.get_var_class(kin, initial_pose): the joint variable class
\* whose default value is the given configuration.
get_var_class_default(a) == a.initial_pose

\* Both entry points are compiled by jdc.jit: while the factors are built an
\* argument not marked jdc.Static is a tracer, of which only the shape is
\* known.  solve_ik marks no weight static (lines 24-29); solve_ik_with_coll
\* marks them all static (lines 154-159); target_joint_indices is traced in
\* both (lines 18, 148).
WeightsStatic(a) == a.entry = "solve_ik_with_coll"

\* The constructors reject the malformed input they can see: target poses
\* and target indices of different lengths, or a negative static weight.
Malformed(a) ==
    \/ Len(a.target_joint_indices) # a.n_target
    \/ WeightsStatic(a) /\ a.rest_weight < 0

---------------------------------------------------------------------------
(* solve_ik: the pieces of one call, as functions of its arguments a *)

\* (variant: the manipulability factor is appended whatever the flag)
SolveIkFactorsAlwaysManip(a) ==
    << limit_cost_factor(a.joint_var_idx,
                         Repeat(a.limit_weight, kin.num_actuated_joints)),
       limit_vel_cost_factor(a.joint_var_idx, a.dt,
                             Repeat(a.joint_vel_weight, kin.num_actuated_joints),
                             a.initial_pose),
       rest_cost_factor(a.joint_var_idx,
                        Repeat(a.rest_weight, kin.num_actuated_joints)),
       ik_cost_factor(a.joint_var_idx, a.target_pose, a.target_joint_indices,
                      a.ik_weight, a.has_se3, a.pose_var_idx),
       manipulability_cost_factor(a.joint_var_idx, a.target_joint_indices,
                                  a.manipulability_weight) >>

\* (variant: the velocity factor is given the joint class's default, not
\* initial_pose, as its previous configuration)
SolveIkFactorsPrevDefault(a) ==
    << limit_cost_factor(a.joint_var_idx,
                         Repeat(a.limit_weight, kin.num_actuated_joints)),
       limit_vel_cost_factor(a.joint_var_idx, a.dt,
                             Repeat(a.joint_vel_weight, kin.num_actuated_joints),
                             a.joint_default),
       rest_cost_factor(a.joint_var_idx,
                        Repeat(a.rest_weight, kin.num_actuated_joints)),
       ik_cost_factor(a.joint_var_idx, a.target_pose, a.target_joint_indices,
                      a.ik_weight, a.has_se3, a.pose_var_idx) >>
    \o (IF a.use_manipulability
        THEN << manipulability_cost_factor(a.joint_var_idx,
                    a.target_joint_indices, a.manipulability_weight) >>
        ELSE << >>)

\* lines 65-109: the factor list
SolveIkFactors(a) ==
    << limit_cost_factor(a.joint_var_idx,
                         Repeat(a.limit_weight, kin.num_actuated_joints)),
       limit_vel_cost_factor(a.joint_var_idx, a.dt,
                             Repeat(a.joint_vel_weight, kin.num_actuated_joints),
                             a.initial_pose),
       rest_cost_factor(a.joint_var_idx,
                        Repeat(a.rest_weight, kin.num_actuated_joints)),
       ik_cost_factor(a.joint_var_idx, a.target_pose, a.target_joint_indices,
                      a.ik_weight, a.has_se3, a.pose_var_idx) >>
    \o (IF a.use_manipulability
        THEN << manipulability_cost_factor(a.joint_var_idx,
                    a.target_joint_indices, a.manipulability_weight) >>
        ELSE << >>)

\* (variant: pose_var_idx is not tested against None)
SolveIkJointVarsAnyIdx(a) ==
    << JointVar(a.joint_var_idx) >>
    \o (IF a.has_se3 THEN << ConstrainedSE3Var(a.pose_var_idx) >> ELSE << >>)

\* lines 111-117: the declared variables
SolveIkJointVars(a) ==
    << JointVar(a.joint_var_idx) >>
    \o (IF a.has_se3 /\ a.pose_var_idx # NoneIdx
        THEN << ConstrainedSE3Var(a.pose_var_idx) >>
        ELSE << >>)

\* (variant: the joint variable is given without with_value(initial_pose))
SolveIkInitialValsNoValue(a) ==
    [v \in {SolveIkJointVars(a)[i] : i \in 1 .. Len(SolveIkJointVars(a))} |->
        IF v.cls = "JointVar" THEN a.joint_default ELSE a.se3_default]

\* lines 112-117, 126: VarValues.make(joint_var_values); a variable given
\* without a value takes its class's default
SolveIkInitialVals(a) ==
    [v \in {SolveIkJointVars(a)[i] : i \in 1 .. Len(SolveIkJointVars(a))} |->
        IF v.cls = "JointVar" THEN a.initial_pose ELSE a.se3_default]

\* (variant: the iteration cap is the literal 50, as in solve_ik_with_coll)
SolveIkTerminationFixedCap(a) ==
    [gradient_tolerance |-> GradientTolerance,
     parameter_tolerance |-> ParameterTolerance,
     max_iterations |-> CollMaxIterations]

\* lines 128-132
SolveIkTermination(a) ==
    [gradient_tolerance |-> GradientTolerance,
     parameter_tolerance |-> ParameterTolerance,
     max_iterations |-> a.max_iterations]

---------------------------------------------------------------------------
(* solve_ik_with_coll *)

\* line 165
CollJointVarIdx == 0

\* line 167
CollIkWeight(a) ==
    << a.pos_weight, a.pos_weight, a.pos_weight,
       a.rot_weight, a.rot_weight, a.rot_weight >>

\* (variant: a single world-collision factor, for the first obstacle only)
WorldCollFactorsFirstOnly(a) ==
    [i \in 1 .. (IF Len(a.world_coll) > 0 THEN 1 ELSE 0) |->
        world_coll_factor(CollJointVarIdx, a.world_coll[i], WorldCollMargin,
                          a.world_coll_weight)]

\* lines 204-209
WorldCollFactors(a) ==
    [i \in 1 .. Len(a.world_coll) |->
        world_coll_factor(CollJointVarIdx, a.world_coll[i], WorldCollMargin,
                          a.world_coll_weight)]

\* (variant: `factors` is one list shared by all calls and never cleared)
SolveIkWithCollFactorsShared(a) ==
    factors[1] \o factors[2]
    \o << ik_cost_factor(CollJointVarIdx, a.target_pose, a.target_joint_indices,
                         CollIkWeight(a), FALSE, NoneIdx),
          rest_cost_factor(CollJointVarIdx,
                           Repeat(a.rest_weight, kin.num_actuated_joints)),
          limit_vel_cost_factor(CollJointVarIdx, CollVelDt,
                                Repeat(a.limit_weight, kin.num_actuated_joints),
                                a.initial_pose),
          limit_cost_factor(CollJointVarIdx,
                            Repeat(a.limit_weight, kin.num_actuated_joints)) >>
    \o << self_coll_factor(CollJointVarIdx, SelfCollMargin, a.self_coll_weight) >>
    \o WorldCollFactors(a)

\* lines 162-212
SolveIkWithCollFactors(a) ==
    << ik_cost_factor(CollJointVarIdx, a.target_pose, a.target_joint_indices,
                      CollIkWeight(a), FALSE, NoneIdx),
       rest_cost_factor(CollJointVarIdx,
                        Repeat(a.rest_weight, kin.num_actuated_joints)),
       limit_vel_cost_factor(CollJointVarIdx, CollVelDt,
                             Repeat(a.limit_weight, kin.num_actuated_joints),
                             a.initial_pose),
       limit_cost_factor(CollJointVarIdx,
                         Repeat(a.limit_weight, kin.num_actuated_joints)) >>
    \o << self_coll_factor(CollJointVarIdx, SelfCollMargin, a.self_coll_weight) >>
    \o WorldCollFactors(a)

\* line 215
SolveIkWithCollJointVars(a) == << JointVar(CollJointVarIdx) >>

\* lines 164, 222: VarValues.make(joint_vars); the variable takes the default
\* of the class made by get_var_class(kin, initial_pose)
SolveIkWithCollInitialVals(a) ==
    [v \in {JointVar(CollJointVarIdx)} |-> get_var_class_default(a)]

\* lines 224-228
SolveIkWithCollTermination(a) ==
    [gradient_tolerance |-> GradientTolerance,
     parameter_tolerance |-> ParameterTolerance,
     max_iterations |-> CollMaxIterations]

---------------------------------------------------------------------------
(* The least-squares engine (jaxls), by its contract: a deterministic      *)
(* trust-region iteration over the declared variables that stops when the  *)
(* tolerances are met or max_iterations is reached.  The abstract descent  *)
(* pulls every variable one unit per iteration toward the target of the    *)
(* first pose-match factor of the list; an unreachable target keeps the    *)
(* iterate moving for ever.                                                *)

Goal(fs) ==
    IF \E i \in 1 .. Len(fs) : fs[i].kind = "ik"
    THEN fs[CHOOSE i \in 1 .. Len(fs) :
                /\ fs[i].kind = "ik"
                /\ \A j \in 1 .. (i - 1) : fs[j].kind # "ik"].target
    ELSE NA

Converged(fs, sol) ==
    \/ Goal(fs) = NA
    \/ Goal(fs) # Unreachable /\ \A v \in DOMAIN sol : sol[v] = Goal(fs)

EngineStep(fs, sol) ==
    [v \in DOMAIN sol |->
        IF Goal(fs) = Unreachable THEN (sol[v] + 1) % (QMax + 1)
        ELSE IF sol[v] < Goal(fs) THEN sol[v] + 1
        ELSE IF sol[v] > Goal(fs) THEN sol[v] - 1
        ELSE sol[v]]

EngineDone(fs, sol, k, term) == Converged(fs, sol) \/ k >= term.max_iterations

\* solution[var]: the value of a declared variable.  For a variable that was
\* not declared the engine either fails the lookup or answers with the value
\* of the declared variable of the same class; which of the two is a fixed
\* property of the engine (lookupMode).
Lookup(sol, var) ==
    IF var \in DOMAIN sol THEN [ok |-> TRUE, val |-> sol[var]]
    ELSE IF lookupMode = "nearest" /\ \E w \in DOMAIN sol : w.cls = var.cls
    THEN [ok |-> TRUE, val |-> sol[CHOOSE w \in DOMAIN sol : w.cls = var.cls]]
    ELSE [ok |-> FALSE, val |-> NA]

---------------------------------------------------------------------------
(* Result extraction *)

Returned(base_pose, joints) ==
    [status |-> "ok", base_pose |-> base_pose, joints |-> joints]
Failed(how) == [status |-> how, base_pose |-> NA, joints |-> NA]
NoResult == Failed("none")

\* lines 136-139: the variable read for the base pose, if any
SolveIkBaseRead(a) == IF a.has_se3 THEN {ConstrainedSE3Var(0)} ELSE {}

\* line 141: the variable read for the joints
SolveIkJointRead(a) == JointVar(0)

\* lines 136-142: the variables read, in order; a failed lookup ends the call
SolveIkReads(a, sol) ==
    IF \E v \in SolveIkBaseRead(a) : ~Lookup(sol, v).ok
    THEN SolveIkBaseRead(a)
    ELSE SolveIkBaseRead(a) \cup {SolveIkJointRead(a)}

\* lines 136-142
SolveIkResult(a, sol) ==
    IF \E v \in SolveIkReads(a, sol) : ~Lookup(sol, v).ok
    THEN Failed("lookup_error")
    ELSE Returned(IF a.has_se3 THEN Lookup(sol, ConstrainedSE3Var(0)).val
                  ELSE Identity,
                  Lookup(sol, SolveIkJointRead(a)).val)

\* line 233
SolveIkWithCollJointRead(a) == JointVar(CollJointVarIdx)

\* lines 233-234
SolveIkWithCollResult(a, sol) ==
    IF ~Lookup(sol, SolveIkWithCollJointRead(a)).ok
    THEN Failed("lookup_error")
    ELSE Returned(NA, Lookup(sol, SolveIkWithCollJointRead(a)).val)

---------------------------------------------------------------------------
(* A whole call as a function of its arguments: what the call returns when *)
(* nothing else runs.                                                      *)

\* one pass of the engine's loop: an iteration unless the solve is done
Loop1(fs, term, s) ==
    IF EngineDone(fs, s.sol, s.k, term) THEN s
    ELSE [sol |-> EngineStep(fs, s.sol), k |-> s.k + 1]
Loop2(fs, term, s) ==
    CHOOSE r \in {Loop1(fs, term, t) : t \in {Loop1(fs, term, s)}} : TRUE
Loop4(fs, term, s) ==
    CHOOSE r \in {Loop2(fs, term, t) : t \in {Loop2(fs, term, s)}} : TRUE
Loop8(fs, term, s) ==
    CHOOSE r \in {Loop4(fs, term, t) : t \in {Loop4(fs, term, s)}} : TRUE
Loop16(fs, term, s) ==
    CHOOSE r \in {Loop8(fs, term, t) : t \in {Loop8(fs, term, s)}} : TRUE
Loop32(fs, term, s) ==
    CHOOSE r \in {Loop16(fs, term, t) : t \in {Loop16(fs, term, s)}} : TRUE
Loop64(fs, term, s) ==
    CHOOSE r \in {Loop32(fs, term, t) : t \in {Loop32(fs, term, s)}} : TRUE

\* the engine's loop run to its end (every iteration cap is below 64)
Solve(fs, sol, k, term) ==
    CHOOSE r \in { Loop64(f, t, [sol |-> s, k |-> k]).sol :
                     f \in {fs}, t \in {term}, s \in {sol} } : TRUE

RunAlone(a) ==
    IF Malformed(a) THEN Failed("validation_error")
    ELSE IF a.entry = "solve_ik"
    THEN SolveIkResult(a, Solve(SolveIkFactors(a), SolveIkInitialVals(a), 0,
                                SolveIkTermination(a)))
    ELSE SolveIkWithCollResult(a,
            Solve(SolveIkWithCollFactors(a), SolveIkWithCollInitialVals(a), 0,
                  SolveIkWithCollTermination(a)))

---------------------------------------------------------------------------
(* Actions: one per step of an entry point, for call c *)

Others(c) ==
    /\ UNCHANGED <<args, alone, kin, robot_coll, lookupMode>>

\* A factor constructor rejects malformed input: the call ends in a
\* validation error while the factor list is being built.
Reject(c) ==
    /\ pc[c] = "start"
    /\ Malformed(args[c])
    /\ pc' = [pc EXCEPT ![c] = "error"]
    /\ result' = [result EXCEPT ![c] = Failed("validation_error")]
    /\ UNCHANGED <<factors, joint_vars, initial_vals, termination, solution,
                   iter, readVars>>
    /\ Others(c)

\* solve_ik, lines 65-109
SolveIkAssemble(c) ==
    /\ pc[c] = "start"
    /\ args[c].entry = "solve_ik"
    /\ ~Malformed(args[c])
    /\ factors' = [factors EXCEPT ![c] = SolveIkFactors(args[c])]
    /\ pc' = [pc EXCEPT ![c] = "assembled"]
    /\ UNCHANGED <<joint_vars, initial_vals, termination, solution, iter,
                   readVars, result>>
    /\ Others(c)

\* solve_ik, lines 111-134: declare the variables, make the graph, start
\* the solve from the initial values
SolveIkSolve(c) ==
    /\ pc[c] = "assembled"
    /\ args[c].entry = "solve_ik"
    /\ joint_vars' = [joint_vars EXCEPT ![c] = SolveIkJointVars(args[c])]
    /\ initial_vals' = [initial_vals EXCEPT ![c] = SolveIkInitialVals(args[c])]
    /\ termination' = [termination EXCEPT ![c] = SolveIkTermination(args[c])]
    /\ solution' = [solution EXCEPT ![c] = SolveIkInitialVals(args[c])]
    /\ iter' = [iter EXCEPT ![c] = 0]
    /\ pc' = [pc EXCEPT ![c] = "solving"]
    /\ UNCHANGED <<factors, readVars, result>>
    /\ Others(c)

\* solve_ik, lines 136-142
SolveIkExtract(c) ==
    /\ pc[c] = "solving"
    /\ args[c].entry = "solve_ik"
    /\ EngineDone(factors[c], solution[c], iter[c], termination[c])
    /\ readVars' = [readVars EXCEPT ![c] = SolveIkReads(args[c], solution[c])]
    /\ result' = [result EXCEPT ![c] = SolveIkResult(args[c], solution[c])]
    /\ pc' = [pc EXCEPT ![c] = IF SolveIkResult(args[c], solution[c]).status = "ok"
                                THEN "done" ELSE "error"]
    /\ UNCHANGED <<factors, joint_vars, initial_vals, termination, solution, iter>>
    /\ Others(c)

\* solve_ik_with_coll, lines 162-212
SolveIkWithCollAssemble(c) ==
    /\ pc[c] = "start"
    /\ args[c].entry = "solve_ik_with_coll"
    /\ ~Malformed(args[c])
    /\ factors' = [factors EXCEPT ![c] = SolveIkWithCollFactors(args[c])]
    /\ pc' = [pc EXCEPT ![c] = "assembled"]
    /\ UNCHANGED <<joint_vars, initial_vals, termination, solution, iter,
                   readVars, result>>
    /\ Others(c)

\* solve_ik_with_coll, lines 215-230
SolveIkWithCollSolve(c) ==
    /\ pc[c] = "assembled"
    /\ args[c].entry = "solve_ik_with_coll"
    /\ joint_vars' = [joint_vars EXCEPT ![c] = SolveIkWithCollJointVars(args[c])]
    /\ initial_vals' =
          [initial_vals EXCEPT ![c] = SolveIkWithCollInitialVals(args[c])]
    /\ termination' =
          [termination EXCEPT ![c] = SolveIkWithCollTermination(args[c])]
    /\ solution' = [solution EXCEPT ![c] = SolveIkWithCollInitialVals(args[c])]
    /\ iter' = [iter EXCEPT ![c] = 0]
    /\ pc' = [pc EXCEPT ![c] = "solving"]
    /\ UNCHANGED <<factors, readVars, result>>
    /\ Others(c)

\* solve_ik_with_coll, lines 233-234
SolveIkWithCollExtract(c) ==
    /\ pc[c] = "solving"
    /\ args[c].entry = "solve_ik_with_coll"
    /\ EngineDone(factors[c], solution[c], iter[c], termination[c])
    /\ readVars' = [readVars EXCEPT ![c] = {SolveIkWithCollJointRead(args[c])}]
    /\ result' = [result EXCEPT ![c] = SolveIkWithCollResult(args[c], solution[c])]
    /\ pc' = [pc EXCEPT ![c] =
                IF SolveIkWithCollResult(args[c], solution[c]).status = "ok"
                THEN "done" ELSE "error"]
    /\ UNCHANGED <<factors, joint_vars, initial_vals, termination, solution, iter>>
    /\ Others(c)

\* graph.solve: one iteration of the engine
EngineIterate(c) ==
    /\ pc[c] = "solving"
    /\ ~EngineDone(factors[c], solution[c], iter[c], termination[c])
    /\ solution' = [solution EXCEPT ![c] = EngineStep(factors[c], solution[c])]
    /\ iter' = [iter EXCEPT ![c] = iter[c] + 1]
    /\ UNCHANGED <<pc, factors, joint_vars, initial_vals, termination, readVars,
                   result>>
    /\ Others(c)

---------------------------------------------------------------------------
(* Initial states: the arguments of the calls *)

\* the target index lists: in range, out of range, one index too many
TargetIndexLists == { <<0>>, <<NumJoints>>, <<0, 0>> }

\* obstacle lists: sequences of distinct obstacles, up to MaxObstacles long
ObstacleLists ==
    UNION { { s \in [1 .. n -> 1 .. MaxObstacles] :
                \A i, j \in 1 .. n : i # j => s[i] # s[j] } : n \in 0 .. MaxObstacles }

\* what every call passes unchanged (the keyword defaults)
BaseArgs ==
    [entry |-> "solve_ik", initial_pose |-> 0, joint_default |-> 0,
     se3_default |-> Identity,
     joint_var_idx |-> 0, pose_var_idx |-> 0, has_se3 |-> FALSE,
     use_manipulability |-> FALSE, max_iterations |-> 0,
     gradient_tolerance |-> GradientTolerance,
     parameter_tolerance |-> ParameterTolerance,
     target_pose |-> 0, target_joint_indices |-> <<0>>, n_target |-> 1,
     world_coll |-> << >>,
     ik_weight |-> IkWeight, rest_weight |-> DefaultRestWeight,
     limit_weight |-> DefaultLimitWeight,
     joint_vel_weight |-> DefaultJointVelWeight, dt |-> DefaultDt,
     manipulability_weight |-> DefaultManipWeight,
     pos_weight |-> DefaultPosWeight, rot_weight |-> DefaultRotWeight,
     self_coll_weight |-> DefaultSelfCollWeight,
     world_coll_weight |-> DefaultWorldCollWeight]

\* the solve-time configurations a caller may ask for
RequestedTolerances ==
    { <<GradientTolerance, ParameterTolerance>>,
      <<2 * GradientTolerance, ParameterTolerance>>,
      <<GradientTolerance, 2 * ParameterTolerance>> }

\* the inputs that can be malformed
InputShapes ==
    { <<t, DefaultRestWeight>> : t \in TargetIndexLists }
    \cup { << <<0>>, -DefaultRestWeight >> }

SolveIkArgs ==
    { [BaseArgs EXCEPT !.initial_pose = q, !.joint_default = d,
          !.se3_default = b,
          !.joint_var_idx = j, !.pose_var_idx = p, !.has_se3 = h,
          !.use_manipulability = m, !.max_iterations = k,
          !.gradient_tolerance = tol[1], !.parameter_tolerance = tol[2],
          !.target_pose = t, !.target_joint_indices = sh[1],
          !.rest_weight = sh[2]] :
        q \in Q, d \in Q, b \in Q, j \in 0 .. MaxVarIdx,
        p \in {NoneIdx} \cup (0 .. MaxVarIdx), h \in BOOLEAN, m \in BOOLEAN,
        k \in 0 .. MaxIterArg, tol \in RequestedTolerances,
        t \in Q \cup {Unreachable}, sh \in InputShapes }

SolveIkWithCollArgs ==
    { [BaseArgs EXCEPT !.entry = "solve_ik_with_coll", !.initial_pose = q,
          !.max_iterations = k,
          !.gradient_tolerance = tol[1], !.parameter_tolerance = tol[2],
          !.target_pose = t, !.target_joint_indices = sh[1],
          !.rest_weight = sh[2], !.world_coll = w] :
        q \in Q, k \in 0 .. MaxIterArg, tol \in RequestedTolerances,
        t \in Q \cup {Unreachable}, sh \in InputShapes, w \in ObstacleLists }

NoVals == [v \in {} |-> 0]
NoTermination ==
    [gradient_tolerance |-> NA, parameter_tolerance |-> NA, max_iterations |-> NA]

InitCall(active, compared) ==
    /\ pc = [c \in Calls |-> IF c \in active THEN "start" ELSE "idle"]
    /\ factors = [c \in Calls |-> << >>]
    /\ joint_vars = [c \in Calls |-> << >>]
    /\ initial_vals = [c \in Calls |-> NoVals]
    /\ termination = [c \in Calls |-> NoTermination]
    /\ solution = [c \in Calls |-> NoVals]
    /\ iter = [c \in Calls |-> 0]
    /\ readVars = [c \in Calls |-> {}]
    /\ result = [c \in Calls |-> NoResult]
    /\ kin = KinModel
    /\ robot_coll = RobotCollGeom
    /\ lookupMode \in {"raise", "nearest"}
    /\ alone = [c \in Calls |-> IF c \in compared THEN RunAlone(args[c])
                                 ELSE NoResult]

\* one call, any arguments
Init ==
    /\ \E a \in SolveIkArgs \cup SolveIkWithCollArgs :
          args = [c \in Calls |-> IF c = 1 THEN a ELSE BaseArgs]
    /\ InitCall({1}, {})

Next ==
    \E c \in Calls :
        \/ Reject(c)
        \/ SolveIkAssemble(c)
        \/ SolveIkSolve(c)
        \/ SolveIkExtract(c)
        \/ SolveIkWithCollAssemble(c)
        \/ SolveIkWithCollSolve(c)
        \/ SolveIkWithCollExtract(c)
        \/ EngineIterate(c)

Spec == Init /\ [][Next]_vars

\* a call is sequential code that runs to completion: each enabled step of
\* each call is eventually taken
Step(c) ==
    \/ Reject(c)
    \/ SolveIkAssemble(c) \/ SolveIkSolve(c) \/ SolveIkExtract(c)
    \/ SolveIkWithCollAssemble(c) \/ SolveIkWithCollSolve(c)
    \/ SolveIkWithCollExtract(c)
    \/ EngineIterate(c)

FairSpec == Spec /\ \A c \in Calls : WF_vars(Step(c))

\* two calls in flight at once, interleaved step by step
ConcSolveIkArgs ==
    { [BaseArgs EXCEPT !.initial_pose = q, !.joint_var_idx = j,
          !.max_iterations = MaxIterArg, !.target_pose = t] :
        q \in Q, j \in {0, MaxVarIdx}, t \in Q \cup {Unreachable} }
    \cup { [BaseArgs EXCEPT !.target_joint_indices = <<0, 0>>] }

ConcSolveIkWithCollArgs ==
    { [BaseArgs EXCEPT !.entry = "solve_ik_with_coll", !.initial_pose = q,
          !.target_pose = t, !.world_coll = <<1>>] :
        q \in Q, t \in Q \cup {Unreachable} }

InitConc ==
    /\ args \in [Calls -> ConcSolveIkArgs \cup ConcSolveIkWithCollArgs]
    /\ InitCall(Calls, Calls)

SpecConc == InitConc /\ [][Next]_vars

---------------------------------------------------------------------------
(* Properties *)

\* the call has handed its problem to the engine
Handed(c) == pc[c] = "solving" \/ (pc[c] \in {"done", "error"} /\ Len(joint_vars[c]) > 0)

Count(fs, kind) == Cardinality({i \in 1 .. Len(fs) : fs[i].kind = kind})

Declared(c) == {joint_vars[c][i] : i \in 1 .. Len(joint_vars[c])}

BaseDeclared(c) == \E v \in Declared(c) : v.cls = "ConstrainedSE3Var"

IsIk(c) == args[c].entry = "solve_ik"
IsColl(c) == args[c].entry = "solve_ik_with_coll"

\* C1: the factor list solve_ik hands to the engine holds exactly one
\* joint-limit, one joint-velocity-limit, one rest-pose and one pose-match
\* factor, a manipulability factor iff use_manipulability, and nothing else.
C1_SolveIkFactorList ==
    \A c \in Calls : (Handed(c) /\ IsIk(c)) =>
        /\ Count(factors[c], "limit") = 1
        /\ Count(factors[c], "limit_vel") = 1
        /\ Count(factors[c], "rest") = 1
        /\ Count(factors[c], "ik") = 1
        /\ Count(factors[c], "manipulability") =
              (IF args[c].use_manipulability THEN 1 ELSE 0)
        /\ Len(factors[c]) = 4 + Count(factors[c], "manipulability")

C1_Witness ==
    \E c \in Calls :
        /\ Handed(c) /\ IsIk(c) /\ iter[c] > 0
        /\ ~args[c].use_manipulability
        /\ Len(factors[c]) = 4

\* C2: the factor list solve_ik_with_coll hands to the engine holds exactly
\* one pose-match, rest-pose, joint-velocity-limit, joint-limit and
\* self-collision factor, followed by one world-collision factor per
\* obstacle, in the obstacle list's order: 5 + k factors for k obstacles.
C2_CollFactorList ==
    \A c \in Calls : (Handed(c) /\ IsColl(c)) =>
        /\ Count(factors[c], "ik") = 1
        /\ Count(factors[c], "rest") = 1
        /\ Count(factors[c], "limit_vel") = 1
        /\ Count(factors[c], "limit") = 1
        /\ Count(factors[c], "self_coll") = 1
        /\ Count(factors[c], "world_coll") = Len(args[c].world_coll)
        /\ Len(factors[c]) = 5 + Len(args[c].world_coll)
        /\ \A i \in 1 .. Len(args[c].world_coll) :
              /\ factors[c][5 + i].kind = "world_coll"
              /\ factors[c][5 + i].geom = args[c].world_coll[i]

C2_Witness ==
    \E c \in Calls :
        /\ Handed(c) /\ IsColl(c)
        /\ args[c].world_coll = <<2, 1>>
        /\ Len(factors[c]) = 7

\* C3 as claimed: solve_ik declares the base-pose variable iff
\* ConstrainedSE3Var is supplied; with none supplied the variable set is the
\* single joint variable and the returned base pose is the identity.
C3_Claimed ==
    \A c \in Calls : (Handed(c) /\ IsIk(c)) =>
        /\ BaseDeclared(c) <=> args[c].has_se3
        /\ ~args[c].has_se3 =>
              /\ Declared(c) = {JointVar(args[c].joint_var_idx)}
              /\ pc[c] = "done" => result[c].base_pose = Identity

\* C3 amended: solve_ik declares the base-pose variable iff
\* ConstrainedSE3Var is supplied and pose_var_idx is not None; with no
\* ConstrainedSE3Var supplied the variable set is the single joint variable
\* and the returned base pose is the identity.
C3_BaseVarDeclared ==
    \A c \in Calls : (Handed(c) /\ IsIk(c)) =>
        /\ BaseDeclared(c) <=> (args[c].has_se3 /\ args[c].pose_var_idx # NoneIdx)
        /\ ~args[c].has_se3 =>
              /\ Declared(c) = {JointVar(args[c].joint_var_idx)}
              /\ pc[c] = "done" => result[c].base_pose = Identity

C3_Witness ==
    \E c \in Calls :
        /\ Handed(c) /\ IsIk(c)
        /\ args[c].has_se3 /\ args[c].pose_var_idx = NoneIdx
        /\ ~BaseDeclared(c)

MalformedInput(a) ==
    \/ \E i \in 1 .. Len(a.target_joint_indices) :
          a.target_joint_indices[i] < 0 \/ a.target_joint_indices[i] >= NumJoints
    \/ Len(a.target_joint_indices) # a.n_target
    \/ Len(a.ik_weight) # 6
    \/ \E w \in {a.rest_weight, a.limit_weight, a.joint_vel_weight,
                 a.manipulability_weight, a.pos_weight, a.rot_weight,
                 a.self_coll_weight, a.world_coll_weight} : w < 0

\* C5 as claimed: a call on malformed input (a target index out of range,
\* vectors of mismatched lengths, a negative weight) ends in a validation
\* error before the first solve iteration: nothing is handed to the engine
\* and no iteration is ever performed.
C5_Claimed ==
    \A c \in Calls : (MalformedInput(args[c]) /\ pc[c] \notin {"idle", "start"}) =>
        /\ pc[c] = "error"
        /\ result[c].status = "validation_error"
        /\ iter[c] = 0
        /\ ~Handed(c)
        /\ solution[c] = NoVals

Cap(c) == IF IsIk(c) THEN args[c].max_iterations ELSE 50

\* C7 as claimed: every solve stops at convergence or after at most
\* max_iterations iterations (50 in solve_ik_with_coll) and then returns the
\* joint configuration of the last iterate, never an error, and every call
\* that reaches the engine eventually returns.
C7_Claimed ==
    /\ [](\A c \in Calls : Handed(c) =>
            /\ iter[c] <= Cap(c)
            /\ pc[c] # "error"
            /\ pc[c] = "done" =>
                  /\ result[c].status = "ok"
                  /\ \E v \in Declared(c) :
                        v.cls = "JointVar" /\ result[c].joints = solution[c][v])
    /\ \A c \in Calls : (pc[c] = "solving") ~> (pc[c] = "done")

\* C8: the joint-velocity-limit factor's previous configuration is the
\* caller's initial_pose in every state of the solve, while the joint
\* variable moves away from it.
C8_PrevCfgIsInitialPose ==
    \A c \in Calls : Handed(c) =>
        /\ Count(factors[c], "limit_vel") = 1
        /\ \A i \in 1 .. Len(factors[c]) :
              factors[c][i].kind = "limit_vel" =>
                  factors[c][i].prev_cfg = args[c].initial_pose

C8_Witness ==
    \E c \in Calls :
        /\ pc[c] = "solving" /\ iter[c] >= 1 /\ IsIk(c)
        /\ args[c].joint_default # args[c].initial_pose
        /\ \A v \in DOMAIN solution[c] :
              v.cls = "JointVar" => solution[c][v] # args[c].initial_pose
        /\ \E i \in 1 .. Len(factors[c]) :
              /\ factors[c][i].kind = "limit_vel"
              /\ factors[c][i].prev_cfg = args[c].initial_pose

\* C9: under any interleaving of the calls every call ends with the result
\* it gives when run alone on the same arguments, and the kinematic model
\* and the collision geometry are never changed.
C9_CallsIndependent ==
    /\ \A c \in Calls : pc[c] \in {"done", "error"} => result[c] = alone[c]
    /\ kin = KinModel
    /\ robot_coll = RobotCollGeom

C9_Witness ==
    /\ pc[1] = "solving" /\ iter[1] >= 1
    /\ pc[2] = "done"
    /\ IsColl(1) /\ IsColl(2)
    /\ args[1].target_pose # args[2].target_pose
    /\ result[2] = alone[2]

\* C10 as claimed: every variable solve_ik reads from the solution was
\* declared for the call; the returned joints are the solved value of
\* JointVar(joint_var_idx) and, with ConstrainedSE3Var supplied, the
\* returned base pose is the solved value of the declared
\* ConstrainedSE3Var(pose_var_idx).
C10_Claimed ==
    \A c \in Calls : (IsIk(c) /\ Handed(c) /\ pc[c] # "solving") =>
        /\ readVars[c] \subseteq Declared(c)
        /\ pc[c] = "done"
        /\ result[c].joints = solution[c][JointVar(args[c].joint_var_idx)]
        /\ args[c].has_se3 =>
              /\ ConstrainedSE3Var(args[c].pose_var_idx) \in Declared(c)
              /\ result[c].base_pose
                    = solution[c][ConstrainedSE3Var(args[c].pose_var_idx)]

=============================================================================
